---- MODULE Spec2Model ----
(***************************************************************************)
(* Maya-To-UE5-Exporter: the settings-to-export pipeline of                *)
(* src/maya_to_ue5_exporter.py.                                            *)
(*                                                                         *)
(* Python values are tagged records [t |-> type, v |-> payload]:           *)
(*   dict   v = sequence of <<key, value>> items in insertion order        *)
(*   bool, int, float, str   v = the value                                 *)
(*   list   v = sequence of raw elements                                   *)
(* Text that the code takes apart character by character (the tag input,   *)
(* the table cells, the paths) is a sequence of one-character strings;     *)
(* Str turns such a sequence into the string it spells.                    *)
(***************************************************************************)
EXTENDS Integers, Sequences, FiniteSets, TLC

VARIABLES
    settings,       \* MayaUE5ExportSettings.default_settings
    ui,             \* the widgets of UE5ExporterUI that hold user input
    status,         \* status_label: <<message, is_error>>
    selection,      \* the host's current selection (cmds.ls(selection=True))
    scene,          \* the host's scene graph, as the cmds queries answer
    plugin_loaded,  \* whether fbxmaya is loaded in the host
    fs,             \* the filesystem: the set of paths that exist
    sidecar,        \* the content of each sidecar file written: path -> tree
    exports,        \* how many times export_fbx has run in this session
    lastOp,         \* the operation that ran last: "export", a method called
                    \* directly, or "edit" for any other handler
    calls,          \* the external calls of the handler that ran last, in order
    ret,            \* what the handler that ran last returned or raised
    pre,            \* the configuration before the handler that ran last
    arg             \* the argument of the handler that ran last

vars == <<settings, ui, status, selection, scene, plugin_loaded, fs, sidecar,
          exports, lastOp, calls, ret, pre, arg>>

\* the host application and the disk
host == <<selection, scene, plugin_loaded, fs, sidecar, exports>>

----------------------------------------------------------------------------
(* Python values *)

PyDict(items) == [t |-> "dict", v |-> items]
PyBool(b)     == [t |-> "bool", v |-> b]
PyInt(n)      == [t |-> "int", v |-> n]
PyFloat(n)    == [t |-> "float", v |-> n]
PyStr(s)    == [t |-> "str", v |-> s]
PyList(xs)    == [t |-> "list", v |-> xs]

IsDict(x) == x.t = "dict"

\* key in d
Has(d, key) == \E i \in 1..Len(d.v) : d.v[i][1] = key

IndexOf(d, key) == CHOOSE i \in 1..Len(d.v) : d.v[i][1] = key

\* d[key]
Get(d, key) == d.v[IndexOf(d, key)][2]

\* d[key] = value: an existing key keeps its position, a new one goes last
SetItem(d, key, value) ==
    IF Has(d, key)
    THEN PyDict([d.v EXCEPT ![IndexOf(d, key)] = <<key, value>>])
    ELSE PyDict(Append(d.v, <<key, value>>))

RECURSIVE GetPath(_, _)
GetPath(x, path) ==
    IF path = <<>> THEN x ELSE GetPath(Get(x, Head(path)), Tail(path))

RECURSIVE HasPath(_, _)
HasPath(x, path) ==
    \/ path = <<>>
    \/ /\ IsDict(x)
       /\ Has(x, Head(path))
       /\ HasPath(Get(x, Head(path)), Tail(path))

RECURSIVE Str(_)
Str(s) == IF s = <<>> THEN "" ELSE Head(s) \o Str(Tail(s))

----------------------------------------------------------------------------
(* MayaUE5ExportSettings *)

default_settings ==
    PyDict(<<
      <<"geometry", PyDict(<<
          <<"smoothing_groups", PyBool(TRUE)>>,
          <<"tangents_and_binormals", PyBool(TRUE)>>,
          <<"preserve_instances", PyBool(TRUE)>>,
          <<"preserve_edge_orientation", PyBool(TRUE)>>,
          <<"turbosmooth", PyBool(TRUE)>> >>)>>,
      <<"coordinate_system", PyDict(<<
          <<"up_axis", PyStr("z")>>,
          <<"unit_system", PyStr("cm")>> >>)>>,
      <<"transform", PyDict(<<
          <<"rotation", PyList(<<0, 90, 0>>)>>,
          <<"scale", PyList(<<1, 1, 1>>)>>,
          <<"translation", PyList(<<0, 0, 0>>)>> >>)>>,
      <<"textures", PyDict(<<
          <<"export_textures", PyBool(FALSE)>>,
          <<"texture_folder", PyStr("")>>,
          <<"copy_textures", PyBool(FALSE)>> >>)>>,
      <<"unreal_import_settings", PyDict(<<
          <<"auto_generate_collision", PyBool(TRUE)>>,
          <<"generate_lightmap_uvs", PyBool(TRUE)>>,
          <<"import_materials", PyBool(TRUE)>>,
          <<"import_textures", PyBool(FALSE)>>,
          <<"combine_meshes", PyBool(FALSE)>>,
          <<"normal_import_method", PyStr("ComputeNormals")>>,
          <<"normal_generation_method", PyStr("MikkTSpace")>> >>)>>,
      <<"metadata", PyDict(<<
          <<"author", PyStr("")>>,
          <<"date_created", PyStr("")>>,
          <<"project", PyStr("")>>,
          <<"version", PyStr("")>>,
          <<"description", PyStr("")>>,
          <<"tags", PyList(<<>>)>>,
          <<"custom_properties", PyDict(<<>>)>> >>)>> >>)

\* an update that assigns every item at the top level, as dict.update does
RECURSIVE update_nested_dict_shallow(_, _)
update_nested_dict_shallow(base_dict, items) ==
    IF items = <<>> THEN [val |-> base_dict, err |-> FALSE]
    ELSE update_nested_dict_shallow(
             SetItem(base_dict, Head(items)[1], Head(items)[2]), Tail(items))

\* update_nested_dict(base_dict, update_dict) over the items of update_dict
\* that are left, in order.  The result is the base afterwards and whether a
\* TypeError was raised; the items before the one that raised stay applied.
\* A base that is no dict supports neither `key in` on a non-container nor
\* item assignment, so any item sent into it raises.
RECURSIVE update_nested_dict(_, _)
update_nested_dict(base_dict, items) ==
    IF items = <<>> THEN [val |-> base_dict, err |-> FALSE]
    ELSE IF ~IsDict(base_dict) THEN [val |-> base_dict, err |-> TRUE]
    ELSE LET key   == Head(items)[1]
             value == Head(items)[2]
         IN IF IsDict(value) /\ Has(base_dict, key)
            THEN LET r == update_nested_dict(Get(base_dict, key), value.v)
                     b == SetItem(base_dict, key, r.val)
                 IN IF r.err THEN [val |-> b, err |-> TRUE]
                    ELSE update_nested_dict(b, Tail(items))
            ELSE update_nested_dict(SetItem(base_dict, key, value), Tail(items))

\* modify_settings(settings_dict) on the configuration `base`
modify_settings(base, settings_dict) == update_nested_dict(base, settings_dict.v)

----------------------------------------------------------------------------
(* Text: sequences of one-character strings *)

Whitespace == {" ", "\t"}

\* str.strip()
RECURSIVE Strip(_)
Strip(s) ==
    IF s = <<>> THEN s
    ELSE IF Head(s) \in Whitespace THEN Strip(Tail(s))
    ELSE IF s[Len(s)] \in Whitespace THEN Strip(SubSeq(s, 1, Len(s) - 1))
    ELSE s

\* str.split(sep): every segment between separators, the empty ones included
RECURSIVE Split(_, _)
Split(s, sep) ==
    IF s = <<>> THEN << <<>> >>
    ELSE LET rest == Split(Tail(s), sep)
         IN IF Head(s) = sep THEN << <<>> >> \o rest
            ELSE << <<Head(s)>> \o Head(rest) >> \o Tail(rest)

----------------------------------------------------------------------------
(* UE5ExporterUI: the form *)

\* The widgets after setup_ui.
InitUI ==
    [ path_field        |-> <<>>,
      asset_name        |-> <<>>,
      smoothing_check   |-> TRUE,
      tangents_check    |-> TRUE,
      instances_check   |-> TRUE,
      rot_x             |-> 0,
      rot_y             |-> 90,
      rot_z             |-> 0,
      metadata_fields   |-> [author |-> <<>>, project |-> <<>>, version |-> <<>>,
                             description |-> <<>>],
      tag_input         |-> <<>>,
      custom_properties |-> <<>>,
      export_textures   |-> FALSE,
      texture_path      |-> <<>>,
      copy_textures     |-> FALSE,
      collision_check   |-> TRUE,
      lightmap_check    |-> TRUE,
      scale_spin        |-> 1 ]

\* a comprehension that trims the segments without filtering them
RECURSIVE TagList_unfiltered(_)
TagList_unfiltered(segments) ==
    IF segments = <<>> THEN <<>>
    ELSE <<Str(Strip(Head(segments)))>> \o TagList_unfiltered(Tail(segments))

\* the tags comprehension of get_current_settings
RECURSIVE TagList(_)
TagList(segments) ==
    IF segments = <<>> THEN <<>>
    ELSE IF Strip(Head(segments)) # <<>>
         THEN <<Str(Strip(Head(segments)))>> \o TagList(Tail(segments))
         ELSE TagList(Tail(segments))

\* get_custom_properties over the table rows that are left; a row is
\* <<key text, value text>>, both items always present (add_custom_property)
RECURSIVE get_custom_properties(_, _)
get_custom_properties(properties, rows) ==
    IF rows = <<>> THEN properties
    ELSE LET key   == Head(rows)[1]
             value == Head(rows)[2]
         IN IF Strip(key) # <<>>
            THEN get_custom_properties(
                     SetItem(properties, Str(Strip(key)), PyStr(Str(Strip(value)))),
                     Tail(rows))
            ELSE get_custom_properties(properties, Tail(rows))

\* get_current_settings, read at time `now` (already formatted)
get_current_settings(w, now) ==
    PyDict(<<
      <<"geometry", PyDict(<<
          <<"smoothing_groups", PyBool(w.smoothing_check)>>,
          <<"tangents_and_binormals", PyBool(w.tangents_check)>>,
          <<"preserve_instances", PyBool(w.instances_check)>> >>)>>,
      <<"transform", PyDict(<<
          <<"rotation", PyList(<<w.rot_x, w.rot_y, w.rot_z>>)>>,
          <<"scale", PyList(<<1, 1, 1>>)>>,
          <<"translation", PyList(<<0, 0, 0>>)>> >>)>>,
      <<"textures", PyDict(<<
          <<"export_textures", PyBool(w.export_textures)>>,
          <<"texture_folder", PyStr(Str(w.texture_path))>>,
          <<"copy_textures", PyBool(w.copy_textures)>> >>)>>,
      <<"unreal_import_settings", PyDict(<<
          <<"auto_generate_collision", PyBool(w.collision_check)>>,
          <<"generate_lightmap_uvs", PyBool(w.lightmap_check)>>,
          <<"import_uniform_scale", PyFloat(w.scale_spin)>> >>)>>,
      <<"metadata", PyDict(<<
          <<"author", PyStr(Str(w.metadata_fields.author))>>,
          <<"project", PyStr(Str(w.metadata_fields.project))>>,
          <<"version", PyStr(Str(w.metadata_fields.version))>>,
          <<"description", PyStr(Str(w.metadata_fields.description))>>,
          <<"date_created", PyStr(now)>>,
          <<"tags", PyList(TagList(Split(w.tag_input, ",")))>>,
          <<"custom_properties",
            get_custom_properties(PyDict(<<>>), w.custom_properties)>> >>)>> >>)

\* update_json_preview: the configuration after merging the form into it
update_json_preview(config, w, now) ==
    modify_settings(config, get_current_settings(w, now)).val

\* A setter of a widget whose change signal is connected to
\* update_json_preview: the signal fires only when the value changes.
\* st = [ui, settings]
SetSignalled(st, field, value, now) ==
    IF st.ui[field] = value THEN st
    ELSE LET w == [st.ui EXCEPT ![field] = value]
         IN [ui |-> w, settings |-> update_json_preview(st.settings, w, now)]

\* a setter of a widget with no slot connected
SetSilent(st, field, value) == [st EXCEPT !.ui[field] = value]

\* reset_settings: the setters in source order, then update_json_preview
reset_settings(form, config, now) ==
    LET s0  == [ui |-> form, settings |-> config]
        s1  == SetSignalled(s0, "smoothing_check", TRUE, now)
        s2  == SetSignalled(s1, "tangents_check", TRUE, now)
        s3  == SetSignalled(s2, "instances_check", TRUE, now)
        s4  == SetSignalled(s3, "collision_check", TRUE, now)
        s5  == SetSignalled(s4, "lightmap_check", TRUE, now)
        s6  == SetSignalled(s5, "scale_spin", 1, now)
        s7  == SetSignalled(s6, "export_textures", FALSE, now)
        s8  == SetSilent(s7, "copy_textures", FALSE)
        s9  == SetSilent(s8, "texture_path", <<>>)
        s10 == SetSignalled(s9, "rot_x", 0, now)
        s11 == SetSignalled(s10, "rot_y", 90, now)
        s12 == SetSignalled(s11, "rot_z", 0, now)
        s13 == SetSilent(s12, "metadata_fields",
                         [author |-> <<>>, project |-> <<>>, version |-> <<>>,
                          description |-> <<>>])
        s14 == SetSilent(s13, "tag_input", <<>>)
        s15 == SetSilent(s14, "custom_properties", <<>>)
    IN [ui |-> s15.ui, settings |-> update_json_preview(s15.settings, s15.ui, now)]

\* get_maya_export_options: the option list, then ";".join(options)
RECURSIVE Join(_, _)
Join(tokens, sep) ==
    IF tokens = <<>> THEN ""
    ELSE IF Len(tokens) = 1 THEN Head(tokens)
    ELSE Head(tokens) \o sep \o Join(Tail(tokens), sep)

\* a rotation token as a range-checking serializer would write it
rotate_token_clamped(name, config, i) ==
    LET r == GetPath(config, <<"transform", "rotation">>).v[i]
    IN name \o "=" \o ToString(IF r > 360 THEN 360 ELSE IF r < -360 THEN -360 ELSE r)

\* f"rotateX={self.default_settings['transform']['rotation'][0]}" and its like
rotate_token(name, config, i) ==
    name \o "=" \o ToString(GetPath(config, <<"transform", "rotation">>).v[i])

\* an option list whose preserveInstances and unitconversion tokens follow
\* the configuration
options_configured(config) ==
    << "groups=1",
       "ptgroups=1",
       "materials=1",
       "smoothing=1",
       "smoothingGroups=" \o
           (IF GetPath(config, <<"geometry", "smoothing_groups">>).v
            THEN "1" ELSE "0"),
       "preserveInstances=" \o
           (IF GetPath(config, <<"geometry", "preserve_instances">>).v
            THEN "1" ELSE "0"),
       "tangents=" \o
           (IF GetPath(config, <<"geometry", "tangents_and_binormals">>).v
            THEN "1" ELSE "0"),
       "animations=0",
       "skeleton=0",
       "up=" \o GetPath(config, <<"coordinate_system", "up_axis">>).v,
       "unitconversion=" \o GetPath(config, <<"coordinate_system", "unit_system">>).v,
       "exportUnrealCompatible=1",
       rotate_token("rotateX", config, 1),
       rotate_token("rotateY", config, 2),
       rotate_token("rotateZ", config, 3) >>

options(config) ==
    << "groups=1",
       "ptgroups=1",
       "materials=1",
       "smoothing=1",
       "smoothingGroups=" \o
           (IF GetPath(config, <<"geometry", "smoothing_groups">>).v
            THEN "1" ELSE "0"),
       "preserveInstances=1",
       "tangents=" \o
           (IF GetPath(config, <<"geometry", "tangents_and_binormals">>).v
            THEN "1" ELSE "0"),
       "animations=0",
       "skeleton=0",
       "up=" \o GetPath(config, <<"coordinate_system", "up_axis">>).v,
       "unitconversion=cm",
       "exportUnrealCompatible=1",
       rotate_token("rotateX", config, 1),
       rotate_token("rotateY", config, 2),
       rotate_token("rotateZ", config, 3) >>

get_maya_export_options(config) == Join(options(config), ";")

----------------------------------------------------------------------------
(* Paths: pathlib.Path as [abs, parts], the parts being texts *)

Max(S) == CHOOSE i \in S : \A j \in S : j <= i

\* Path(text): empty and "." segments are dropped
PathOf(text) ==
    [abs   |-> text # <<>> /\ Head(text) = "/",
     parts |-> SelectSeq(Split(text, "/"), LAMBDA seg : seg # <<>> /\ seg # <<".">>)]

\* p / text
Div(p, text) ==
    IF PathOf(text).abs THEN PathOf(text)
    ELSE [p EXCEPT !.parts = @ \o PathOf(text).parts]

\* p.parent
Parent(p) ==
    IF p.parts = <<>> THEN p
    ELSE [p EXCEPT !.parts = SubSeq(@, 1, Len(@) - 1)]

\* p.name
Name(p) == IF p.parts = <<>> THEN <<>> ELSE p.parts[Len(p.parts)]

\* p.stem: the name up to its last dot, unless that dot is first or last
Stem(p) ==
    LET name == Name(p)
        dots == {i \in 1..Len(name) : name[i] = "."}
    IN IF dots # {} /\ 1 < Max(dots) /\ Max(dots) < Len(name)
       THEN SubSeq(name, 1, Max(dots) - 1)
       ELSE name

RECURSIVE StrEach(_)
StrEach(texts) ==
    IF texts = <<>> THEN <<>> ELSE <<Str(Head(texts))>> \o StrEach(Tail(texts))

\* str(p)
PathStr(p) ==
    IF p.parts = <<>> THEN (IF p.abs THEN "/" ELSE ".")
    ELSE (IF p.abs THEN "/" ELSE "") \o Join(StrEach(p.parts), "/")

\* os.path.basename(text): what follows the last slash
Basename(text) ==
    LET slashes == {i \in 1..Len(text) : text[i] = "/"}
    IN IF slashes = {} THEN text
       ELSE SubSeq(text, Max(slashes) + 1, Len(text))

\* p.mkdir(parents=True, exist_ok=True) on the set of existing paths
mkdir(files, p) ==
    files \cup {PathStr([p EXCEPT !.parts = SubSeq(@, 1, k)]) : k \in 1..Len(p.parts)}

----------------------------------------------------------------------------
(* MayaUE5ExportSettings._copy_textures and export_fbx *)

\* one external call: its name, up to two arguments, whether it returned
Call(name, a, b, ok) == [name |-> name, a |-> a, b |-> b, ok |-> ok]

Range(f) == {f[i] : i \in DOMAIN f}

\* every order in which a set may be iterated
Orders(S) ==
    {o \in [1..Cardinality(S) -> S] : \A i, j \in DOMAIN o : i # j => o[i] # o[j]}

\* the file nodes visited by the two loops of _copy_textures, shaders taken
\* in the order the set yields them
RECURSIVE FileNodes(_, _)
FileNodes(shader_order, scn) ==
    IF shader_order = <<>> THEN <<>>
    ELSE scn.files[Head(shader_order)] \o FileNodes(Tail(shader_order), scn)

\* a copy that forgets what it has copied
already_copied_never(target, copied_files) == FALSE

\* str(target_path) in copied_files
already_copied(target, copied_files) == target \in copied_files

\* the body of the inner loop, over the file nodes that are left;
\* st = [copied_files, fs, calls]
RECURSIVE copy_files(_, _, _, _)
copy_files(file_nodes, texture_dir, scn, st) ==
    IF file_nodes = <<>> THEN st
    ELSE LET texture_path == scn.texture[Head(file_nodes)]
             target_path  == Div(texture_dir, Basename(texture_path))
         IN IF /\ texture_path # <<>>
               /\ Str(texture_path) \in st.fs
               /\ ~already_copied(PathStr(target_path), st.copied_files)
            THEN copy_files(Tail(file_nodes), texture_dir, scn,
                     [copied_files |-> st.copied_files \cup {PathStr(target_path)},
                      fs    |-> st.fs \cup {PathStr(target_path)},
                      calls |-> Append(st.calls,
                                   Call("copy2", Str(texture_path),
                                        PathStr(target_path), TRUE))])
            ELSE copy_files(Tail(file_nodes), texture_dir, scn, st)

_copy_textures(shader_order, texture_dir, scn, files) ==
    copy_files(FileNodes(shader_order, scn), texture_dir, scn,
               [copied_files |-> {}, fs |-> files, calls |-> <<>>])

\* the materials of the selection: shape -> shading engine -> surface shader
shader_nodes(sel, scn) ==
    UNION {Range(scn.shaders[se]) :
           se \in UNION {Range(scn.engines[shape]) :
                         shape \in UNION {Range(scn.shapes[obj]) : obj \in Range(sel)}}}

\* One run of export_fbx is [entry, w, calls, ret]: the world on entry, the
\* world now ([fs, plugin_loaded, sidecar]), the external calls so far and
\* "running" until the run returns.  Its context x holds the configuration,
\* the three arguments, the host's answers (sel, scn, the order the shader
\* set iterates in) and what the environment decides: oc.load, oc.file and
\* oc.dump, whether loadPlugin, cmds.file and the sidecar write succeed.

\* an except clause that lets the exception through
except_reraise(exc) == exc

\* except Exception as e: print(...); return False
except_return(exc) == "False"

\* an except clause that removes what the run had written
after_failure_rollback(entry, w) == entry

\* the except clause changes nothing on disk or in the host
after_failure(entry, w) == w

Raise(st, exc) ==
    [st EXCEPT !.ret = except_return(exc), !.w = after_failure(st.entry, st.w)]

Log(st, call) == [st EXCEPT !.calls = Append(@, call)]

SM == <<"S", "M", "_">>

\* a final name that keeps the caller's empty name
final_name_no_fallback(x) == SM \o x.asset_name

\* if not asset_name: asset_name = export_path.stem; final_name = "SM_" + it
final_name(x) ==
    SM \o (IF x.asset_name = <<>> THEN Stem(PathOf(x.export_path))
           ELSE x.asset_name)

\* The locals of export_fbx, from its arguments x: export_path as a Path,
\* final_name, fbx_path, texture_dir and settings_path.
fbx_path(x) ==
    Div(Parent(PathOf(x.export_path)), final_name(x) \o <<".", "f", "b", "x">>)

texture_dir(x) ==
    Div(Div(PathOf(x.texture_path), final_name(x)),
        <<"t", "e", "x", "t", "u", "r", "e", "s">>)

settings_path(x) ==
    Div(Parent(fbx_path(x)),
        final_name(x) \o <<"_", "m", "e", "t", "a", "d", "a", "t", "a", "_",
                           "f", "b", "x", ".", "j", "s", "o", "n">>)

Locals(x) ==
    [ export_dir    |-> Parent(PathOf(x.export_path)),
      final_name    |-> final_name(x),
      fbx_path      |-> fbx_path(x),
      texture_dir   |-> texture_dir(x),
      settings_path |-> settings_path(x) ]

\* if not cmds.pluginInfo(...loaded=True): cmds.loadPlugin('fbxmaya')
stage_plugin(st, x) ==
    IF st.ret # "running" THEN st
    ELSE LET q == Log(st, Call("pluginInfo", "fbxmaya", "", TRUE))
         IN IF q.w.plugin_loaded THEN q
            ELSE IF x.oc.load
            THEN [Log(q, Call("loadPlugin", "fbxmaya", "", TRUE))
                     EXCEPT !.w.plugin_loaded = TRUE]
            ELSE Raise(Log(q, Call("loadPlugin", "fbxmaya", "", FALSE)),
                       "RuntimeError")

\* export_path.parent.mkdir(parents=True, exist_ok=True)
stage_paths(st, x) ==
    IF st.ret # "running" THEN st
    ELSE [Log(st, Call("mkdir", PathStr(x.loc.export_dir), "", TRUE))
             EXCEPT !.w.fs = mkdir(@, x.loc.export_dir)]

\* a texture block that copies whenever it stages
stage_textures_copy_always(st, x) ==
    IF st.ret # "running" THEN st
    ELSE IF GetPath(x.config, <<"textures", "export_textures">>).v
            /\ x.texture_path # <<>>
    THEN LET made == [Log(Log(st, Call("mkdir", PathStr(x.loc.texture_dir), "", TRUE)),
                          Call("ls", "", "", TRUE))
                         EXCEPT !.w.fs = mkdir(@, x.loc.texture_dir)]
             c == _copy_textures(x.order, x.loc.texture_dir, x.scn, made.w.fs)
         IN [made EXCEPT !.w.fs = c.fs, !.calls = @ \o c.calls]
    ELSE st

\* the texture block: staging directory, shader collection, optional copy
stage_textures(st, x) ==
    IF st.ret # "running" THEN st
    ELSE IF GetPath(x.config, <<"textures", "export_textures">>).v
            /\ x.texture_path # <<>>
    THEN LET made == [Log(Log(st, Call("mkdir", PathStr(x.loc.texture_dir), "", TRUE)),
                          Call("ls", "", "", TRUE))
                         EXCEPT !.w.fs = mkdir(@, x.loc.texture_dir)]
         IN IF GetPath(x.config, <<"textures", "copy_textures">>).v
            THEN LET c == _copy_textures(x.order, x.loc.texture_dir, x.scn, made.w.fs)
                 IN [made EXCEPT !.w.fs = c.fs, !.calls = @ \o c.calls]
            ELSE made
    ELSE st

\* cmds.file(str(fbx_path), force=True, options=..., typ="FBX export", ...)
stage_file(st, x) ==
    IF st.ret # "running" THEN st
    ELSE LET path == PathStr(x.loc.fbx_path)
             call(ok) == Call("file", path, get_maya_export_options(x.config), ok)
         IN IF x.oc.file = "ok"
            THEN [Log(st, call(TRUE)) EXCEPT !.w.fs = @ \cup {path}]
            ELSE IF x.oc.file = "partial"
            THEN Raise([Log(st, call(FALSE)) EXCEPT !.w.fs = @ \cup {path}],
                       "RuntimeError")
            ELSE Raise(Log(st, call(FALSE)), "RuntimeError")

\* with open(settings_path, 'w') as f: json.dump(self.default_settings, f)
stage_sidecar(st, x) ==
    IF st.ret # "running" THEN st
    ELSE LET path == PathStr(x.loc.settings_path)
         IN IF x.oc.dump
            THEN [Log(st, Call("dump", path, "", TRUE))
                     EXCEPT !.w.fs = @ \cup {path},
                            !.w.sidecar = (path :> x.config) @@ @]
            ELSE Raise(Log(st, Call("dump", path, "", FALSE)), "OSError")

\* return True
stage_return(st) == IF st.ret = "running" THEN [st EXCEPT !.ret = "True"] ELSE st

\* a body that writes the sidecar before it calls the export command
run_stages_sidecar_first(st, x) ==
    stage_return(
        stage_file(
            stage_sidecar(
                stage_textures(stage_paths(stage_plugin(st, x), x), x), x), x))

\* the body of the try block, top to bottom
run_stages(st, x) ==
    stage_return(
        stage_sidecar(
            stage_file(
                stage_textures(stage_paths(stage_plugin(st, x), x), x), x), x))

\* export_fbx(export_path, asset_name, texture_path) on configuration
\* a.config in world w; a also holds the host's answers and the outcomes
export_fbx(a, w) ==
    run_stages([entry |-> w, w |-> w, calls |-> <<>>, ret |-> "running"],
               [config |-> a.config, scn |-> a.scn, order |-> a.order,
                oc |-> a.oc, texture_path |-> a.texture_path, loc |-> Locals(a)])

----------------------------------------------------------------------------
(* UE5ExporterUI.export *)

Outcome(config, w, stat, log, result) ==
    [settings |-> config, w |-> w, status |-> stat, calls |-> log, ret |-> result]

\* a validation failure that has merged the form all the same
early_return_merged(form, config, w, now, message, log) ==
    Outcome(modify_settings(config, get_current_settings(form, now)).val, w,
            <<message, TRUE>>, log, "not called")

\* self.show_status(message, True); return
early_return(form, config, w, now, message, log) ==
    Outcome(config, w, <<message, TRUE>>, log, "not called")

export(form, config, sel, scn, w, now, order, oc) ==
    IF form.path_field = <<>>
    THEN early_return(form, config, w, now, "Please select export path", <<>>)
    ELSE IF sel = <<>>
    THEN early_return(form, config, w, now, "Please select objects to export",
                      <<Call("ls", "", "", TRUE)>>)
    ELSE LET m == modify_settings(config, get_current_settings(form, now))
             r == export_fbx(
                      [config       |-> m.val,
                       export_path  |-> form.path_field,
                       asset_name   |-> form.asset_name,
                       texture_path |-> IF form.export_textures
                                        THEN form.texture_path ELSE <<>>,
                       sel |-> sel, scn |-> scn, order |-> order, oc |-> oc],
                      w)
         IN IF m.err
            THEN Outcome(m.val, w, <<"Error: TypeError", TRUE>>,
                         <<Call("ls", "", "", TRUE)>>, "not called")
            ELSE Outcome(m.val, r.w,
                         IF r.ret = "True"
                         THEN <<"Export completed successfully!", FALSE>>
                         ELSE IF r.ret = "False" THEN <<"Export failed", TRUE>>
                         ELSE <<"Error: " \o r.ret, TRUE>>,
                         <<Call("ls", "", "", TRUE)>> \o r.calls, r.ret)

----------------------------------------------------------------------------
(* The state after UE5ExporterUI() and the host it runs in *)

\* datetime.now().strftime("%Y-%m-%d %H:%M:%S"), as the clock gives it
Times == {"2024-05-01 10:00:00"}

\* The scene: two objects with one material each.  lambert2 and blinn1
\* share the texture node file1; file4 names another file of the same
\* basename as file1's; file2 has no texture set; file3's is not on disk.
TheScene ==
    [ shapes  |-> [pCube1 |-> <<"pCubeShape1">>, pSphere1 |-> <<"pSphereShape1">>],
      engines |-> [pCubeShape1 |-> <<"lambert2SG">>, pSphereShape1 |-> <<"blinn1SG">>],
      shaders |-> [lambert2SG |-> <<"lambert2">>, blinn1SG |-> <<"blinn1">>],
      files   |-> [lambert2 |-> <<"file1", "file2", "file5">>,
                   blinn1   |-> <<"file4", "file3", "file1">>],
      texture |-> [file1 |-> <<"/", "s", "r", "c", "/", "a", ".", "p", "n", "g">>,
                   file2 |-> <<>>,
                   file3 |-> <<"/", "s", "r", "c", "/", "g", "o", "n", "e", ".", "p", "n", "g">>,
                   file4 |-> <<"/", "a", "l", "t", "/", "a", ".", "p", "n", "g">>,
                   file5 |-> <<"/", "s", "r", "c", "/", "b", ".", "p", "n", "g">>] ]

\* the texture files on disk when the session starts
SourceFiles == {"/src", "/alt", "/src/a.png", "/alt/a.png", "/src/b.png"}

\* Everything but the configuration, as it is when the dialog opens.
InitRest ==
    /\ ui = InitUI
    /\ status = <<"", FALSE>>
    /\ selection = <<>>
    /\ scene = TheScene
    /\ plugin_loaded = FALSE
    /\ fs = SourceFiles
    /\ sidecar = <<>>
    /\ exports = 0
    /\ lastOp = "init"
    /\ calls = <<>>
    /\ ret = "none"
    /\ pre = PyDict(<<>>)
    /\ arg = PyDict(<<>>)

----------------------------------------------------------------------------
(* modify_settings called directly: base and partial drawn from all trees   *)
(* of two levels over MergeKeys                                             *)

MaxVal == 1

MergeKeys == {"geometry", "up_axis"}

BaseLeaves == {PyInt(n) : n \in 1..MaxVal}

PartialLeaves == {PyInt(n) : n \in (MaxVal + 1)..(2 * MaxVal)}

\* every dict over MergeKeys whose values come from vals, in every key order
DictsOver(vals) ==
    {PyDict(<<>>)}
    \cup {PyDict(<< <<k, x>> >>) : k \in MergeKeys, x \in vals}
    \cup {PyDict(<< <<k1, x1>>, <<k2, x2>> >>) :
             <<k1, k2>> \in {kk \in MergeKeys \X MergeKeys : kk[1] # kk[2]},
             <<x1, x2>> \in vals \X vals}

TreesOver(leaves) == DictsOver(leaves \cup DictsOver(leaves))

InitMerge ==
    /\ settings \in TreesOver(BaseLeaves)
    /\ InitRest

ModifySettings ==
    /\ lastOp = "init"
    /\ \E settings_dict \in TreesOver(PartialLeaves) :
         \E r \in {modify_settings(settings, settings_dict)} :
            /\ settings' = r.val
            /\ ret' = IF r.err THEN "TypeError" ELSE "None"
            /\ pre' = settings
            /\ arg' = settings_dict
    /\ lastOp' = "modify_settings"
    /\ calls' = <<>>
    /\ UNCHANGED <<ui, status, host>>

NextMerge == ModifySettings

SpecMerge == InitMerge /\ [][NextMerge]_vars

\* every key path of a tree
RECURSIVE PathsOf(_)
PathsOf(x) ==
    IF ~IsDict(x) THEN {}
    ELSE UNION {{<<x.v[i][1]>>}
                \cup {<<x.v[i][1]>> \o p : p \in PathsOf(x.v[i][2])} :
                i \in 1..Len(x.v)}

\* the key paths of a tree that end in a leaf
LeafPathsOf(x) == {p \in PathsOf(x) : ~IsDict(GetPath(x, p))}

\* C1: after modify_settings(P), every key path of the base that P does not
\* supply is still present with the value it had (so a section that P
\* supplies is merged into, never replaced wholesale).
C1_FramePreserved ==
    lastOp = "modify_settings" =>
        \A p \in PathsOf(pre) \ PathsOf(arg) :
            HasPath(settings, p) /\ GetPath(settings, p) = GetPath(pre, p)

\* C2: modify_settings(P) completes without raising and afterwards every
\* leaf of P is readable at its key path with P's value.
C2_MergeTotalAndApplied ==
    lastOp = "modify_settings" =>
        /\ ret = "None"
        /\ \A p \in LeafPathsOf(arg) :
              HasPath(settings, p) /\ GetPath(settings, p) = GetPath(arg, p)

----------------------------------------------------------------------------
(* get_maya_export_options on every configuration the class can hold: a     *)
(* fresh MayaUE5ExportSettings whose option fields are set, one at a time,  *)
(* through modify_settings                                                  *)

MaxTurns == 2

\* rotation values, beyond the form's -360..360 too
RotValues == {270 * k : k \in (-MaxTurns)..MaxTurns} \cup {90}

UpAxes == {"x", "y", "z"}

UnitSystems == {"cm", "m"}

Rotation(config) == GetPath(config, <<"transform", "rotation">>).v

\* the partial configurations that set one field the option string may read
OptionPartials(config) ==
    {PyDict(<< <<"geometry", PyDict(<< <<k, PyBool(b)>> >>)>> >>) :
        k \in {"smoothing_groups", "tangents_and_binormals", "preserve_instances"},
        b \in BOOLEAN}
    \cup {PyDict(<< <<"coordinate_system", PyDict(<< <<"up_axis", PyStr(a)>> >>)>> >>) :
        a \in UpAxes}
    \cup {PyDict(<< <<"coordinate_system", PyDict(<< <<"unit_system", PyStr(u)>> >>)>> >>) :
        u \in UnitSystems}
    \cup {PyDict(<< <<"transform", PyDict(<< <<"rotation",
              PyList([Rotation(config) EXCEPT ![i] = r])>> >>)>> >>) :
        i \in 1..3, r \in RotValues}

InitOptions ==
    /\ settings = default_settings
    /\ InitRest

SetOption ==
    /\ \E settings_dict \in OptionPartials(settings) :
         settings' = modify_settings(settings, settings_dict).val
    /\ lastOp' = "modify_settings"
    /\ ret' = "None"
    /\ UNCHANGED <<ui, status, host, calls, pre, arg>>

GetOptions ==
    /\ ret' = get_maya_export_options(settings)
    /\ lastOp' = "get_maya_export_options"
    /\ UNCHANGED <<settings, ui, status, host, calls, pre, arg>>

NextOptions == SetOption \/ GetOptions

SpecOptions == InitOptions /\ [][NextOptions]_vars

Bit(b) == IF b THEN "1" ELSE "0"

\* C3: the option string is the 15 tokens in the fixed order, with
\* smoothingGroups and tangents 1 or 0 by the flags, up the configured axis
\* and rotateX/Y/Z the configured rotation unchanged; the default
\* configuration gives up=z and rotateX=0;rotateY=90;rotateZ=0.
C3_OptionString ==
    lastOp = "get_maya_export_options" =>
        /\ Len(options(settings)) = 15
        /\ ret = "groups=1;ptgroups=1;materials=1;smoothing=1;smoothingGroups="
                 \o Bit(GetPath(settings, <<"geometry", "smoothing_groups">>).v)
                 \o ";preserveInstances=1;tangents="
                 \o Bit(GetPath(settings, <<"geometry", "tangents_and_binormals">>).v)
                 \o ";animations=0;skeleton=0;up="
                 \o GetPath(settings, <<"coordinate_system", "up_axis">>).v
                 \o ";unitconversion=cm;exportUnrealCompatible=1;rotateX="
                 \o ToString(Rotation(settings)[1])
                 \o ";rotateY=" \o ToString(Rotation(settings)[2])
                 \o ";rotateZ=" \o ToString(Rotation(settings)[3])
        /\ settings = default_settings =>
              ret = "groups=1;ptgroups=1;materials=1;smoothing=1;smoothingGroups=1;preserveInstances=1;tangents=1;animations=0;skeleton=0;up=z;unitconversion=cm;exportUnrealCompatible=1;rotateX=0;rotateY=90;rotateZ=0"

\* an option string was produced for a rotation outside -360..360 with the
\* smoothing flag off and another up axis
C3_Witness ==
    /\ lastOp = "get_maya_export_options"
    /\ Rotation(settings)[1] > 360
    /\ Rotation(settings)[3] < -360
    /\ ~GetPath(settings, <<"geometry", "smoothing_groups">>).v
    /\ GetPath(settings, <<"coordinate_system", "up_axis">>).v = "y"

----------------------------------------------------------------------------
(* The export session: the widgets export reads, the host, the disk; the    *)
(* session is followed up to its MaxExports-th run of export_fbx            *)

MaxExports == 1

HeroPath == <<"/", "o", "u", "t", "/", "H", "e", "r", "o", ".", "f", "b", "x">>

DottedPath == <<"/", "p", "/", "a", ".", "b", ".", "f", "b", "x">>

PathTexts == {<<>>, HeroPath, DottedPath}

AssetNames == {<<>>, <<"R", "o", "c", "k">>}

TextureDirs == {<<"/", "t", "e", "x">>}

Selections == {<<>>, <<"pCube1", "pSphere1">>}

\* __init__: setup_ui ends with update_json_preview
Init ==
    /\ \E now \in Times : settings = update_json_preview(default_settings, InitUI, now)
    /\ InitRest

\* a widget edit that no slot listens to
Edit(field, value) ==
    /\ exports < MaxExports
    /\ ui' = [ui EXCEPT ![field] = value]
    /\ lastOp' = "edit"
    /\ calls' = <<>>
    /\ ret' = "none"
    /\ UNCHANGED <<settings, status, host, pre, arg>>

\* a widget edit followed by update_json_preview
EditAndPreview(field, value) ==
    /\ exports < MaxExports
    /\ ui' = [ui EXCEPT ![field] = value]
    /\ \E now \in Times : settings' = update_json_preview(settings, ui', now)
    /\ lastOp' = "edit"
    /\ calls' = <<>>
    /\ ret' = "none"
    /\ UNCHANGED <<status, host, pre, arg>>

\* typing into path_field, or browse_path
SetPathField == \E text \in PathTexts : text # ui.path_field /\ Edit("path_field", text)

SetAssetName == \E text \in AssetNames : text # ui.asset_name /\ Edit("asset_name", text)

\* export_textures.stateChanged -> update_texture_ui
ToggleExportTextures == EditAndPreview("export_textures", ~ui.export_textures)

\* copy_textures is enabled while export_textures is checked
ToggleCopyTextures ==
    /\ ui.export_textures
    /\ Edit("copy_textures", ~ui.copy_textures)

BrowseTexturePath ==
    \E path \in TextureDirs : EditAndPreview("texture_path", path)

\* texture_path is enabled while export_textures is checked
ClearTexturePath ==
    /\ ui.export_textures
    /\ ui.texture_path # <<>>
    /\ Edit("texture_path", <<>>)

\* the user selects in the host
Select ==
    /\ exports < MaxExports
    /\ \E sel \in Selections : sel # selection /\ selection' = sel
    /\ lastOp' = "edit"
    /\ calls' = <<>>
    /\ ret' = "none"
    /\ UNCHANGED <<settings, ui, status, scene, plugin_loaded, fs, sidecar,
                   exports, pre, arg>>

Reset ==
    /\ exports < MaxExports
    /\ \E now \in Times : \E r \in {reset_settings(ui, settings, now)} :
         ui' = r.ui /\ settings' = r.settings
    /\ lastOp' = "edit"
    /\ calls' = <<>>
    /\ ret' = "none"
    /\ UNCHANGED <<status, host, pre, arg>>

\* What the environment may decide in one export with the host as it is:
\* loadPlugin is called only when the plugin is not loaded, cmds.file only
\* after that, the sidecar write only after cmds.file returned; a rejected
\* export calls none of them.
ExportOutcomes ==
    IF ui.path_field = <<>> \/ selection = <<>>
    THEN {[load |-> TRUE, file |-> "ok", dump |-> TRUE]}
    ELSE {oc \in [load : BOOLEAN, file : {"ok", "raise", "partial"}, dump : BOOLEAN] :
             /\ plugin_loaded => oc.load
             /\ ~oc.load => oc.file = "ok"
             /\ oc.file # "ok" => oc.dump}

\* the orders in which the shader set may be iterated, where it is iterated
ShaderOrders ==
    IF /\ ui.path_field # <<>>
       /\ ui.export_textures /\ ui.copy_textures /\ ui.texture_path # <<>>
    THEN Orders(shader_nodes(selection, scene))
    ELSE {<<>>}

Export ==
    /\ \E now \in Times, oc \in ExportOutcomes, order \in ShaderOrders :
         \E r \in {export(ui, settings, selection, scene,
                         [fs |-> fs, plugin_loaded |-> plugin_loaded,
                          sidecar |-> sidecar],
                         now, order, oc)} :
            /\ r.ret # "not called" => exports < MaxExports
            /\ settings' = r.settings
            /\ status' = r.status
            /\ fs' = r.w.fs
            /\ plugin_loaded' = r.w.plugin_loaded
            /\ sidecar' = r.w.sidecar
            /\ calls' = r.calls
            /\ ret' = r.ret
            /\ exports' = IF r.ret = "not called" THEN exports ELSE exports + 1
    /\ lastOp' = "export"
    /\ UNCHANGED <<ui, selection, scene, pre, arg>>

Next ==
    \/ SetPathField
    \/ SetAssetName
    \/ ToggleExportTextures
    \/ ToggleCopyTextures
    \/ BrowseTexturePath
    \/ ClearTexturePath
    \/ Select
    \/ Reset
    \/ Export

Spec == Init /\ [][Next]_vars

----------------------------------------------------------------------------
(* Properties of one export, read off the state it leaves and the calls it  *)
(* made                                                                     *)

\* an export step that got as far as calling export_fbx
Ran == lastOp = "export" /\ ret # "not called"

CallsNamed(log, name) == {i \in 1..Len(log) : log[i].name = name}

\* the call `name` was made and raised
Raised(log, name) == \E i \in CallsNamed(log, name) : ~log[i].ok

\* the call `name` was made and returned
Returned(log, name) == \E i \in CallsNamed(log, name) : log[i].ok

\* the directory of the export path and the name the claim prescribes
ExportDir == PathStr(Parent(PathOf(ui.path_field)))

PrescribedName ==
    "SM_" \o (IF ui.asset_name # <<>> THEN Str(ui.asset_name)
              ELSE Str(Stem(PathOf(ui.path_field))))

\* C4: the final name is SM_ plus the asset name, or SM_ plus the stem of
\* the export path when the asset name is empty; the export command is given
\* <export dir>/<final name>.fbx and the sidecar is written to
\* <export dir>/<final name>_metadata_fbx.json (empty name with
\* /out/Hero.fbx: /out/SM_Hero.fbx and /out/SM_Hero_metadata_fbx.json).
C4_FinalNameAndPaths ==
    Ran =>
        /\ \A i \in CallsNamed(calls, "file") :
              calls[i].a = ExportDir \o "/" \o PrescribedName \o ".fbx"
        /\ \A i \in CallsNamed(calls, "dump") :
              calls[i].a = ExportDir \o "/" \o PrescribedName \o "_metadata_fbx.json"
        /\ ret = "True" =>
              /\ ExportDir \o "/" \o PrescribedName \o ".fbx" \in fs
              /\ ExportDir \o "/" \o PrescribedName \o "_metadata_fbx.json" \in fs
              /\ ExportDir \o "/" \o PrescribedName \o "_metadata_fbx.json"
                    \in DOMAIN sidecar
        /\ (ui.asset_name = <<>> /\ ui.path_field = HeroPath) =>
              /\ \A i \in CallsNamed(calls, "file") : calls[i].a = "/out/SM_Hero.fbx"
              /\ \A i \in CallsNamed(calls, "dump") :
                    calls[i].a = "/out/SM_Hero_metadata_fbx.json"
        /\ (ui.asset_name = <<>> /\ ui.path_field = DottedPath) =>
              \A i \in CallsNamed(calls, "file") : calls[i].a = "/p/SM_a.b.fbx"

\* a successful export with no asset name, named after the stem Hero
C4_Witness ==
    /\ Ran
    /\ ret = "True"
    /\ ui.asset_name = <<>>
    /\ ui.path_field = HeroPath
    /\ "/out/SM_Hero_metadata_fbx.json" \in DOMAIN sidecar

\* the calls that change the disk or the host
Effects == {"mkdir", "copy2", "loadPlugin", "file", "dump"}

\* C5: export with no output path, or with nothing selected, reports an
\* error and returns with no side effect: no directory made, no texture
\* copied, loadPlugin and the export command not called, no sidecar written,
\* the configuration not merged.
C5_RejectedExportHasNoEffect ==
    [][(lastOp' = "export" /\ (ui.path_field = <<>> \/ selection = <<>>)) =>
          /\ ret' = "not called"
          /\ status'[2] = TRUE
          /\ status'[1] = (IF ui.path_field = <<>> THEN "Please select export path"
                           ELSE "Please select objects to export")
          /\ \A i \in 1..Len(calls') : calls'[i].name \notin Effects
          /\ fs' = fs
          /\ plugin_loaded' = plugin_loaded
          /\ sidecar' = sidecar
          /\ settings' = settings]_vars

\* an export was rejected for want of a selection while the form held a
\* copy_textures setting the configuration did not have yet
C5_Witness ==
    /\ lastOp = "export"
    /\ ret = "not called"
    /\ ui.path_field # <<>>
    /\ selection = <<>>
    /\ ui.copy_textures
    /\ ~GetPath(settings, <<"textures", "copy_textures">>).v
    /\ status = <<"Please select objects to export", TRUE>>

C7_ExportCommandFailure ==
    [][(lastOp' = "export" /\ Raised(calls', "file")) =>
          /\ ret' = "False"
          /\ status' = <<"Export failed", TRUE>>
          /\ CallsNamed(calls', "dump") = {}
          /\ Cardinality(CallsNamed(calls', "file")) = 1
          /\ sidecar' = sidecar
          /\ fs \subseteq fs'
          /\ \A i \in CallsNamed(calls', "mkdir") : calls'[i].a \in fs'
          /\ \A i \in CallsNamed(calls', "copy2") : calls'[i].b \in fs']_vars

\* the export command raised after textures had been copied
C7_Witness ==
    /\ Ran
    /\ Raised(calls, "file")
    /\ CallsNamed(calls, "copy2") # {}
    /\ ret = "False"
    /\ "/tex/SM_Hero/textures/a.png" \in fs

\* the step of export_fbx a call belongs to; the first call of an export is
\* the selection query of the dialog
Step(log, i) ==
    LET c == log[i]
    IN IF i = 1 THEN 0
       ELSE IF c.name \in {"pluginInfo", "loadPlugin"} THEN 1
       ELSE IF c.name = "mkdir" /\ c.a = ExportDir THEN 2
       ELSE IF c.name \in {"mkdir", "ls", "copy2"} THEN 3
       ELSE IF c.name = "file" THEN 4
       ELSE 5

\* C10: a run of export_fbx makes its calls in the order plugin check/load,
\* output directory, texture staging and copying, export command, sidecar
\* write; the sidecar is written only after the export command has returned
\* successfully, and True is returned only after the sidecar was written.
C10_StepOrder ==
    Ran =>
        /\ \A i, j \in 1..Len(calls) : i < j => Step(calls, i) <= Step(calls, j)
        /\ calls[2].name = "pluginInfo"
        /\ \A n \in {"pluginInfo", "loadPlugin", "file", "dump"} :
              Cardinality(CallsNamed(calls, n)) <= 1
        /\ \A i \in CallsNamed(calls, "dump") :
              \E j \in CallsNamed(calls, "file") : j < i /\ calls[j].ok
        /\ \A i \in CallsNamed(calls, "file") :
              \E j \in CallsNamed(calls, "mkdir") : j < i /\ calls[j].a = ExportDir
        /\ ret = "True" <=>
              (calls[Len(calls)].name = "dump" /\ calls[Len(calls)].ok)

\* a run that passed through every step: plugin loaded, textures copied,
\* file exported, sidecar written
C10_Witness ==
    /\ Ran
    /\ ret = "True"
    /\ Returned(calls, "loadPlugin")
    /\ CallsNamed(calls, "copy2") # {}
    /\ Returned(calls, "dump")

----------------------------------------------------------------------------
(* _copy_textures called directly, on every assignment of at most MaxFiles  *)
(* file nodes to one material and one fewer to the other (the set yields    *)
(* the two in either order)                                                 *)

MaxFiles == 2

Materials == {"lambert2", "blinn1"}

FileLists(longest) == UNION {[1..n -> DOMAIN TheScene.texture] : n \in 0..longest}

CopyScenes ==
    {[TheScene EXCEPT !.files = [lambert2 |-> a, blinn1 |-> b]] :
        a \in FileLists(MaxFiles), b \in FileLists(MaxFiles - 1)}

\* the staging directory export_fbx passes for asset Hero under /tex
StagingDir ==
    PathOf(<<"/", "t", "e", "x", "/", "S", "M", "_", "H", "e", "r", "o", "/",
             "t", "e", "x", "t", "u", "r", "e", "s">>)

InitCopy ==
    /\ settings = default_settings
    /\ ui = InitUI
    /\ status = <<"", FALSE>>
    /\ selection = <<>>
    /\ scene \in CopyScenes
    /\ plugin_loaded = TRUE
    /\ fs = mkdir(SourceFiles, StagingDir)
    /\ sidecar = <<>>
    /\ exports = 0
    /\ lastOp = "init"
    /\ calls = <<>>
    /\ ret = "none"
    /\ pre = PyDict(<<>>)
    /\ arg = <<>>

\* self._copy_textures(shader_nodes, texture_dir)
CopyTextures ==
    /\ \E S \in SUBSET Materials : \E order \in Orders(S) :
         \E c \in {_copy_textures(order, StagingDir, scene, fs)} :
            /\ fs' = c.fs
            /\ calls' = c.calls
            /\ arg' = order
    /\ lastOp' = "_copy_textures"
    /\ ret' = "None"
    /\ UNCHANGED <<settings, ui, status, selection, scene, plugin_loaded,
                   sidecar, exports, pre>>

NextCopy == CopyTextures

SpecCopy == InitCopy /\ [][NextCopy]_vars

\* the file nodes of the materials handed to the run
NodesOf(materials) == UNION {Range(scene.files[m]) : m \in Range(materials)}

DestinationOf(text) == "/tex/SM_Hero/textures/" \o Str(Basename(text))

----------------------------------------------------------------------------
(* The metadata form: the tag field and the custom-property table, with a   *)
(* checkbox to trigger update_json_preview                                  *)

MaxRows == 2

CommaTags == <<"a", ",", " ", ",", "b", ",">>

PaddedTag == <<" ", "x", " ">>

TagInputs == {<<>>, CommaTags, PaddedTag}

KeyTexts == {<<" ">>, <<"k">>, <<" ", "k", " ">>}

ValueTexts == {<<>>, <<" ", "2">>}

EditTags == \E text \in TagInputs : text # ui.tag_input /\ Edit("tag_input", text)

\* add_custom_property: a new last row with two empty items
AddProperty ==
    /\ Len(ui.custom_properties) < MaxRows
    /\ Edit("custom_properties", Append(ui.custom_properties, << <<>>, <<>> >>))

\* remove_custom_property, a row being current
RemoveProperty ==
    \E row \in 1..Len(ui.custom_properties) :
        Edit("custom_properties",
             SubSeq(ui.custom_properties, 1, row - 1)
                 \o SubSeq(ui.custom_properties, row + 1, Len(ui.custom_properties)))

\* the user types into a cell of the table
EditCell ==
    \E row \in 1..Len(ui.custom_properties), col \in 1..2 :
        \E text \in (IF col = 1 THEN KeyTexts ELSE ValueTexts) :
            /\ text # ui.custom_properties[row][col]
            /\ Edit("custom_properties",
                    [ui.custom_properties EXCEPT ![row][col] = text])

\* smoothing_check.stateChanged -> update_json_preview
ToggleSmoothing == EditAndPreview("smoothing_check", ~ui.smoothing_check)

NextMeta ==
    \/ EditTags
    \/ AddProperty
    \/ RemoveProperty
    \/ EditCell
    \/ ToggleSmoothing
    \/ Reset

SpecMeta == Init /\ [][NextMeta]_vars

Tags(config) == GetPath(config, <<"metadata", "tags">>).v

CustomProperties(config) == GetPath(config, <<"metadata", "custom_properties">>).v

\* the strings that are non-empty and have no blank at either end, among
\* the texts of at most two characters
Letters == {"a", "b", "x", "k", "2", " ", ","}

Trimmed == {Str(t) : t \in {u \in [1..1 -> Letters] \cup [1..2 -> Letters] :
                               u[1] \notin Whitespace /\ u[Len(u)] \notin Whitespace}}

\* what the claim prescribes for each tag input, key text and value text
PrescribedTags(text) ==
    IF text = CommaTags THEN <<"a", "b">>
    ELSE IF text = PaddedTag THEN <<"x">>
    ELSE <<>>

PrescribedKey(text) == IF text \in {<<"k">>, <<" ", "k", " ">>} THEN "k" ELSE ""

PrescribedValue(text) == IF text = <<" ", "2">> THEN "2" ELSE ""

\* C9: metadata.tags always holds trimmed, non-empty strings only, and after
\* a preview update it is the trimmed non-empty segments of the tag input
\* in input order ("a, ,b," gives ["a","b"]); every key of
\* metadata.custom_properties is non-empty after trimming and occurs once,
\* and after a preview update the key of every table row holds the value of
\* the last row with the same trimmed key.
C9_TagsAndCustomProperties ==
    /\ [](/\ \A i \in 1..Len(Tags(settings)) : Tags(settings)[i] \in Trimmed
          /\ \A i \in 1..Len(CustomProperties(settings)) :
                CustomProperties(settings)[i][1] \in Trimmed
          /\ \A i, j \in 1..Len(CustomProperties(settings)) :
                CustomProperties(settings)[i][1] = CustomProperties(settings)[j][1]
                   => i = j)
    /\ [][settings' # settings =>
            /\ Tags(settings') = PrescribedTags(ui'.tag_input)
            /\ \A row \in 1..Len(ui'.custom_properties) :
                  LET key  == PrescribedKey(ui'.custom_properties[row][1])
                      last == Max({r \in 1..Len(ui'.custom_properties) :
                                      PrescribedKey(ui'.custom_properties[r][1]) = key})
                  IN key # "" =>
                        \E i \in 1..Len(CustomProperties(settings')) :
                           CustomProperties(settings')[i] =
                              <<key, PyStr(PrescribedValue(ui'.custom_properties[last][2]))>>]_vars

\* "a, ,b," was merged as ["a","b"] and two rows whose keys trim to k left
\* the one entry k with the later row's value
C9_Witness ==
    /\ ui.tag_input = CommaTags
    /\ Tags(settings) = <<"a", "b">>
    /\ ui.custom_properties = << <<<<"k">>, <<>>>>, <<<<" ", "k", " ">>, <<" ", "2">>>> >>
    /\ CustomProperties(settings) = << <<"k", PyStr("2")>> >>

----------------------------------------------------------------------------
(* export_fbx called directly on a MayaUE5ExportSettings whose texture      *)
(* flags are set through modify_settings, with every texture destination;   *)
(* followed up to the MaxExports-th run                                     *)

TexturePartials ==
    {PyDict(<< <<"textures", PyDict(<< <<k, PyBool(b)>> >>)>> >>) :
        k \in {"export_textures", "copy_textures"}, b \in BOOLEAN}

InitDirect ==
    /\ settings = default_settings
    /\ InitRest

\* settings.modify_settings({"textures": {...}})
SetTextures ==
    /\ exports < MaxExports
    /\ \E settings_dict \in TexturePartials :
         settings' = modify_settings(settings, settings_dict).val
    /\ lastOp' = "modify_settings"
    /\ calls' = <<>>
    /\ ret' = "None"
    /\ UNCHANGED <<ui, status, host, pre, arg>>

\* the user selects in the host
SelectDirect ==
    /\ exports < MaxExports
    /\ \E sel \in Selections : sel # selection /\ selection' = sel
    /\ lastOp' = "edit"
    /\ calls' = <<>>
    /\ ret' = "none"
    /\ UNCHANGED <<settings, ui, status, scene, plugin_loaded, fs, sidecar,
                   exports, pre, arg>>

\* what the environment may decide in one run, the host as it is
DirectOutcomes ==
    {oc \in [load : BOOLEAN, file : {"ok", "raise", "partial"}, dump : BOOLEAN] :
        /\ plugin_loaded => oc.load
        /\ ~oc.load => oc.file = "ok"
        /\ oc.file # "ok" => oc.dump}

\* settings.export_fbx(export_path, asset_name, texture_path)
ExportFbx ==
    /\ exports < MaxExports
    /\ \E asset_name \in AssetNames, texture_path \in TextureDirs \cup {<<>>},
          oc \in DirectOutcomes, order \in Orders(shader_nodes(selection, scene)) :
         \E r \in {export_fbx([config       |-> settings,
                               export_path  |-> HeroPath,
                               asset_name   |-> asset_name,
                               texture_path |-> texture_path,
                               sel |-> selection, scn |-> scene,
                               order |-> order, oc |-> oc],
                              [fs |-> fs, plugin_loaded |-> plugin_loaded,
                               sidecar |-> sidecar])} :
            /\ fs' = r.w.fs
            /\ plugin_loaded' = r.w.plugin_loaded
            /\ sidecar' = r.w.sidecar
            /\ calls' = r.calls
            /\ ret' = r.ret
            /\ arg' = [export_path |-> HeroPath, asset_name |-> asset_name,
                       texture_path |-> texture_path]
    /\ exports' = exports + 1
    /\ lastOp' = "export_fbx"
    /\ UNCHANGED <<settings, ui, status, selection, scene, pre>>

NextDirect ==
    \/ SetTextures
    \/ SelectDirect
    \/ ExportFbx

SpecDirect == InitDirect /\ [][NextDirect]_vars

\* the staging directory the claim prescribes for the call's arguments
PrescribedStaging ==
    Str(arg.texture_path) \o "/SM_"
        \o (IF arg.asset_name # <<>> THEN Str(arg.asset_name) ELSE "Hero")
        \o "/textures"

\* the mkdir calls of the run other than that of the export directory
StagingCalls == {i \in CallsNamed(calls, "mkdir") : calls[i].a # "/out"}

\* C11: export_fbx makes the staging directory
\* <texture destination>/<final name>/textures only when
\* textures.export_textures is true and the texture destination is not
\* empty, copies texture files only when textures.copy_textures is true as
\* well, and skips a referenced source that is empty or not on disk: no copy
\* is attempted for it, nothing raises, and the run returns True unless
\* loadPlugin, the export command or the sidecar write failed.
C11_TextureStaging ==
    lastOp = "export_fbx" =>
        /\ \A i \in StagingCalls :
              /\ GetPath(settings, <<"textures", "export_textures">>).v
              /\ arg.texture_path # <<>>
              /\ calls[i].a = PrescribedStaging
              /\ PrescribedStaging \in fs
        /\ CallsNamed(calls, "copy2") # {} =>
              /\ StagingCalls # {}
              /\ GetPath(settings, <<"textures", "copy_textures">>).v
        /\ \A i \in CallsNamed(calls, "copy2") :
              /\ calls[i].ok
              /\ calls[i].a \in SourceFiles
              /\ calls[i].a \notin {"", "/src/gone.png"}
        /\ (~Raised(calls, "loadPlugin") /\ ~Raised(calls, "file")
               /\ ~Raised(calls, "dump")) => ret = "True"

\* a run over both materials, whose file nodes include one with no texture
\* and one whose texture is not on disk, copied the two files that exist
\* and returned True
C11_Witness ==
    /\ lastOp = "export_fbx"
    /\ ret = "True"
    /\ Len(selection) = 2
    /\ arg.texture_path # <<>>
    /\ arg.asset_name = <<>>
    /\ Cardinality(CallsNamed(calls, "copy2")) = 2
    /\ "/tex/SM_Hero/textures/a.png" \in fs
    /\ "/tex/SM_Hero/textures/b.png" \in fs
    /\ "/tex/SM_Hero/textures/gone.png" \notin fs

----------------------------------------------------------------------------
(* The custom-property table through a whole session: rows added, keyed,    *)
(* removed, the form previewed, reset and exported                          *)

\* the user types into the key cell of a row
EditKey ==
    \E row \in 1..Len(ui.custom_properties) : \E text \in KeyTexts :
        /\ text # ui.custom_properties[row][1]
        /\ Edit("custom_properties",
                [ui.custom_properties EXCEPT ![row][1] = text])

\* typing the one export path into path_field, or clearing it
TypePath ==
    \E text \in {<<>>, HeroPath} : text # ui.path_field /\ Edit("path_field", text)

NextProps ==
    \/ AddProperty
    \/ EditKey
    \/ RemoveProperty
    \/ ToggleSmoothing
    \/ Reset
    \/ TypePath
    \/ Select
    \/ Export

SpecProps == Init /\ [][NextProps]_vars

Keys(config) ==
    {CustomProperties(config)[i][1] : i \in 1..Len(CustomProperties(config))}

\* C12: no step of a session takes a key out of metadata.custom_properties:
\* the keys the configuration held before the step are all there after it,
\* whether the step added, keyed or removed a row, updated the preview, reset
\* the form or exported; and a sidecar written by the step holds them too.
C12_KeysNeverShrink ==
    [][/\ Keys(settings) \subseteq Keys(settings')
       /\ \A p \in DOMAIN sidecar' :
             (p \notin DOMAIN sidecar \/ sidecar'[p] # sidecar[p]) =>
                Keys(settings) \subseteq Keys(sidecar'[p])]_vars

\* the table is empty again, and the key k merged from it earlier went into
\* the sidecar of the export that followed
C12_Witness ==
    /\ lastOp = "export"
    /\ ret = "True"
    /\ ui.custom_properties = <<>>
    /\ "k" \in Keys(settings)
    /\ "/out/SM_Hero_metadata_fbx.json" \in DOMAIN sidecar
    /\ "k" \in Keys(sidecar["/out/SM_Hero_metadata_fbx.json"])

----------------------------------------------------------------------------
(* What the option string depends on *)

\* the default configuration with the four fields of `config` the claim
\* names: every configuration that agrees with `config` on them has this
\* same image
FourFields(config) ==
    modify_settings(default_settings,
        PyDict(<< <<"geometry", PyDict(<<
                      <<"smoothing_groups",
                        GetPath(config, <<"geometry", "smoothing_groups">>)>>,
                      <<"tangents_and_binormals",
                        GetPath(config, <<"geometry", "tangents_and_binormals">>)>> >>)>>,
                  <<"coordinate_system", PyDict(<<
                      <<"up_axis", GetPath(config, <<"coordinate_system", "up_axis">>)>> >>)>>,
                  <<"transform", PyDict(<<
                      <<"rotation", GetPath(config, <<"transform", "rotation">>)>> >>)>> >>)).val

\* `config` with the two fields behind the Preserve Instances checkbox and
\* the unit system set to b and u
WithOthers(config, b, u) ==
    modify_settings(config,
        PyDict(<< <<"geometry", PyDict(<< <<"preserve_instances", PyBool(b)>> >>)>>,
                  <<"coordinate_system", PyDict(<< <<"unit_system", PyStr(u)>> >>)>> >>)).val

\* C13: the option string of a configuration is that of any configuration
\* with the same geometry.smoothing_groups, geometry.tangents_and_binormals,
\* coordinate_system.up_axis and transform.rotation; its preserveInstances
\* token is 1 whatever geometry.preserve_instances holds and its
\* unitconversion token is cm whatever coordinate_system.unit_system holds.
C13_OptionsDependOnFourFields ==
    lastOp = "get_maya_export_options" =>
        /\ ret = get_maya_export_options(FourFields(settings))
        /\ \A b \in BOOLEAN, u \in UnitSystems :
              get_maya_export_options(WithOthers(settings, b, u)) = ret
        /\ options(settings)[6] = "preserveInstances=1"
        /\ options(settings)[11] = "unitconversion=cm"

\* an option string was produced with Preserve Instances off and metres as
\* the unit system
C13_Witness ==
    /\ lastOp = "get_maya_export_options"
    /\ ~GetPath(settings, <<"geometry", "preserve_instances">>).v
    /\ GetPath(settings, <<"coordinate_system", "unit_system">>).v = "m"
    /\ GetPath(settings, <<"coordinate_system", "up_axis">>).v = "x"

====
